---- MODULE Spec2Model ----
(***************************************************************************)
(* State-machine model of src/agent.py: the autonomous moltbook agent.     *)
(* The model starts where main() enters its steady-state loop (line 449)   *)
(* and follows main, discover_posts, api_get/api_post,                     *)
(* _interruptible_sleep, pick_and_act and maybe_create_post statement by   *)
(* statement.  The remote API, the language model, the random generator    *)
(* and the delivery of signals are the environment: their outcomes are     *)
(* drawn from small sets.                                                  *)
(***************************************************************************)
EXTENDS Integers, Sequences, FiniteSets, TLC

\* ------------------------------------------------------------------ bounds
\* Cycles of the main loop the model follows.
MaxCycles == 2
\* Entries of the "actions" list of one language-model reply.
MaxActions == 2
\* 429 responses over the process lifetime that ask for a wait; a 429 with
\* "Retry-After: 0" can come at any request.
MaxRetryWaits == 1

\* Lexical units of a text given to _parse_llm_json.
MaxTextLen == 5

\* ------------------------------------------------------- program constants
\* range(3) of api_get and api_post.
MaxAttempts == 3
\* resp.headers.get("Retry-After", 5)
DefaultRetryAfter == 5
\* time.time() - last_post_time < 1800
Cooldown == 1800
\* wait_for_llm(cfg, retries=60, delay=5)
Retries == 60
ProbeDelay == 5
\* enumerate(posts[:15])
PromptCap == 15

\* The operator configuration (DEFAULT_CONFIG overlaid by the config file),
\* with two topics and two submolts so that query order is observable and a
\* short cycle interval.
cfg ==
    [topics |-> <<"technology", "AI">>,
     submolts |-> <<"general", "meta">>,
     cycle_interval_seconds |-> 2,
     max_comments_per_cycle |-> 1,
     max_posts_per_cycle |-> 1]

\* for sort in ("hot", "new")
Sorts == <<"hot", "new">>

\* ------------------------------------------------------------- environment
\* A post is modelled by the value of p.get("id"); 0 stands for an identifier
\* that Python treats as false (absent, None, 0 or "").
Pages == {<< >>, <<1>>, <<1, 2>>, <<2, 0, 2>>}

\* resp.json() of a GET: a dict with or without the "posts" key.
Bodies ==
    {[has_posts |-> TRUE, posts |-> p] : p \in Pages}
        \cup {[has_posts |-> FALSE, posts |-> << >>]}

NoBody == [has_posts |-> FALSE, posts |-> << >>]

\* HTTP status codes the server answers with.
Statuses == {200, 429, 500}

\* The Retry-After header of a 429 response: "0" or "1" (-1 would be a
\* response without the header).
RetryAfterHeaders == {0, 1}

\* What _parse_llm_json(reply) hands to pick_and_act, by the way Python
\* treats it:
\*   none          None: no stage parsed (or the JSON null)
\*   falsy         an empty dict, list or string, or 0
\*   scalar        a non-zero number or true: "actions" in parsed raises
\*   str_actions   a string that contains "actions": parsed["actions"] raises
\*   no_actions    a dict without the "actions" key
\*   actions_num   a dict whose "actions" is a number: iterating it raises
\*   actions_list  a dict whose "actions" is a list
ParsedKinds ==
    {"none", "falsy", "scalar", "str_actions", "no_actions", "actions_num",
     "actions_list"}

\* Values of an integer "index": around the sizes of the lists discovery
\* returns, and around the number of candidates the prompt shows.
Indices == 0..2 \cup {PromptCap, PromptCap + 1}

\* One entry of the actions list.  is_dict = FALSE is an entry without .get
\* (a string, a number); index_is_int = FALSE is a missing or non-integer
\* "index"; comment is "text" (non-blank string), "blank" (missing, empty or
\* whitespace) or "nonstr" (null or a number, which has no .strip).
Entries ==
    {[is_dict |-> FALSE, index_is_int |-> FALSE, index |-> 0,
      action |-> "other", comment |-> "blank"],
     [is_dict |-> TRUE, index_is_int |-> FALSE, index |-> 0,
      action |-> "upvote", comment |-> "blank"]}
        \cup {[is_dict |-> TRUE, index_is_int |-> TRUE, index |-> i,
               action |-> a, comment |-> "blank"] :
                  i \in Indices, a \in {"upvote", "other"}}
        \cup {[is_dict |-> TRUE, index_is_int |-> TRUE, index |-> i,
               action |-> "comment", comment |-> c] :
                  i \in Indices, c \in {"text", "blank", "nonstr"}}

\* A reply of the language model as a sequence of lexical units: the braces
\* of an object, the literal null, a run of prose and the fence marker ```.
Tokens == {"{", "}", "null", "prose", "fence"}

Texts == UNION {[1..n -> Tokens] : n \in 0..MaxTextLen}

NoAction ==
    [is_dict |-> FALSE, index_is_int |-> FALSE, index |-> 0,
     action |-> "other", comment |-> "blank"]

\* What _parse_llm_json(reply) hands to maybe_create_post:
\*   none / falsy / scalar as above
\*   no_title      a dict lacking "title" or "body"
\*   draft         a dict with both, the title a string
\*   draft_numtitle a dict with both, the title a number (no slicing)
DraftKinds ==
    {"none", "falsy", "scalar", "no_title", "draft", "draft_numtitle"}

\* ------------------------------------------------------------------- state
VARIABLES
    _shutdown,        \* the module-level flag
    pc,               \* the statement the process is at
    exit_code,        \* -1 while running, then the process exit code
    uncaught,         \* the exception that ended the process, and where
    cycle,            \* main: cycle
    engaged_ids,      \* main: engaged_ids
    last_post_time,   \* main: last_post_time
    now,              \* time.time()
    posts,            \* discover_posts: posts (then main's posts)
    seen,             \* discover_posts: seen
    ti,               \* discover_posts: position in cfg.topics
    si,               \* discover_posts: position in ("hot", "new")
    ci,               \* discover_posts: position in cfg.submolts
    call,             \* api_get/api_post: the request being made
    attempt,          \* api_get/api_post: the loop variable
    ret,              \* api_get/api_post: how the call ended
    sleepLeft,        \* _interruptible_sleep: iterations left
    action,           \* pick_and_act: the loop variable
    ai,               \* pick_and_act: entries of the list consumed
    actions_taken,    \* pick_and_act: actions_taken
    draft,            \* maybe_create_post: kind of parsed
    \* history variables: what an observer of the run has seen
    resps,            \* responses received by the call in progress
    queries,          \* queries discover_posts has issued this call
    firstSeen,        \* ids received this call, in order of first receipt
    requested,        \* <<kind, pid>> of the api_post calls of the batch
    repeated,         \* those made more than once in the batch
    referenced,       \* ids referenced in range by the batch's entries
    touched,          \* ... other than by a comment entry with blank text
    pa_exit,          \* how the last pick_and_act ended
    published,        \* times at which the server accepted POST /posts
    sigAt,            \* where the first signal found the process
    waitsAfterSig,    \* time.sleep(1) calls started since then
    rateLimited,      \* 429 responses so far that asked for a wait
    engagedAtStart,   \* engaged_ids as the cycle in progress found it
    \* state of the code outside the steady-state loop
    probe_i,          \* wait_for_llm: the loop variable i
    text,             \* _parse_llm_json: text
    parse_ret         \* _parse_llm_json: what it returned

mainVars == <<cycle, engaged_ids, last_post_time>>
discVars == <<posts, seen, ti, si, ci>>
apiVars == <<call, attempt, ret, resps, rateLimited>>
paVars == <<action, ai, actions_taken>>
paHist == <<requested, repeated, referenced, touched, pa_exit>>
discHist == <<queries, firstSeen>>
postHist == <<published>>
endVars == <<exit_code, uncaught>>
offLoopVars == <<probe_i, text, parse_ret>>

vars ==
    <<_shutdown, pc, exit_code, uncaught, cycle, engaged_ids, last_post_time,
      now, posts, seen, ti, si, ci, call, attempt, ret, sleepLeft, action,
      ai, actions_taken, draft, resps, queries, firstSeen, requested,
      repeated, referenced, touched, pa_exit, published, sigAt,
      waitsAfterSig, rateLimited, engagedAtStart, probe_i,
      text, parse_ret>>

NoCall == [fn |-> "none", path |-> "none", pid |-> 0, ret_to |-> "none"]
NoRet == [kind |-> "none", body |-> NoBody]
NoException == [exc |-> "none", in |-> "none"]
\* _parse_llm_json has not been called.
NotParsed == [kind |-> "not_called", val |-> << >>]

\* The steady-state loop before its first cycle (lines 26, 449-451).
InitLoopVars ==
    /\ _shutdown = FALSE
    /\ exit_code = -1
    /\ uncaught = NoException
    /\ cycle = 0
    /\ engaged_ids = {}
    /\ last_post_time = 0
    /\ now = Cooldown
    /\ seen = {}
    /\ ti = 0
    /\ si = 0
    /\ ci = 0
    /\ call = NoCall
    /\ attempt = 0
    /\ ret = NoRet
    /\ sleepLeft = 0
    /\ action = NoAction
    /\ ai = 0
    /\ actions_taken = 0
    /\ draft = "none"
    /\ resps = << >>
    /\ queries = << >>
    /\ firstSeen = << >>
    /\ requested = {}
    /\ repeated = {}
    /\ referenced = {}
    /\ touched = {}
    /\ pa_exit = "none"
    /\ published = << >>
    /\ sigAt = "none"
    /\ waitsAfterSig = 0
    /\ rateLimited = 0
    /\ engagedAtStart = {}

Init ==
    /\ InitLoopVars
    /\ posts = << >>
    /\ pc = "main_loop"
    /\ probe_i = 0
    /\ text = << >>
    /\ parse_ret = NotParsed

\* ----------------------------------------------------------------- helpers
\* The stage of the cycle the process is in.
Stage ==
    CASE pc \in {"main_sleep", "main_sleeping"} -> "sleep"
      [] pc \in {"discover_search", "discover_search_ret", "discover_sort",
                 "discover_feed", "discover_feed_ret"} -> "discover"
      [] pc \in {"api_get", "api_post", "api_sleep", "api_sleeping"} ->
             IF call.path \in {"search", "feed"} THEN "discover"
             ELSE IF call.path = "posts" THEN "post" ELSE "act"
      [] pc \in {"pick_and_act", "pa_loop", "pa_commented", "pa_upvoted"} ->
             "act"
      [] pc \in {"maybe_create_post", "mcp_ret"} -> "post"
      [] pc \in {"wait_for_llm", "llm_ready"} -> "startup"
      [] pc \in {"llm_sleep", "llm_sleeping"} -> "llm_wait"
      [] OTHER -> "main"

\* Where the signal finds the process: in a stage of the cycle, or inside a
\* search or feed query of discover_posts (api_get entered, not returned).
SignalPoint ==
    IF Stage = "discover" /\ call.fn = "get" THEN "query" ELSE Stage

\* The locals of api_get / api_post die when the caller has its result.
EndCall ==
    /\ call' = NoCall
    /\ attempt' = 0
    /\ ret' = NoRet
    /\ resps' = << >>

\* The locals of discover_posts other than the list it returns.
EndDiscover ==
    /\ seen' = {}
    /\ ti' = 0
    /\ si' = 0
    /\ ci' = 0

\* An exception nobody catches: the interpreter prints the traceback and the
\* process exits with status 1.
Crash(exc, where) ==
    /\ pc' = "done"
    /\ exit_code' = 1
    /\ uncaught' = [exc |-> exc, in |-> where]

\* Entering api_get / api_post: for attempt in range(3) starts at 0.
StartCall(fn, path, p, ret_to) ==
    /\ call' = [fn |-> fn, path |-> path, pid |-> p, ret_to |-> ret_to]
    /\ attempt' = 0
    /\ ret' = NoRet
    /\ resps' = << >>
    /\ pc' = IF fn = "get" THEN "api_get" ELSE "api_post"

\* Python's truth value of an identifier: "if pid".
Truthy(p) == p # 0


\* ------------------------------------------------------------ signal handler
\* _handle_signal (lines 29-32): sets the flag; a second signal changes
\* nothing.  Signals are delivered only to a live process.
_handle_signal ==
    /\ pc # "done"
    /\ _shutdown' = TRUE
    /\ sigAt' = IF _shutdown THEN sigAt ELSE SignalPoint
    /\ UNCHANGED <<pc, endVars, mainVars, now, discVars, apiVars, sleepLeft,
                   paVars, draft, discHist, paHist, postHist,
                   waitsAfterSig>>
    /\ UNCHANGED <<offLoopVars, engagedAtStart>>

\* ------------------------------------------------------------ sleep helper
\* _interruptible_sleep, lines 413-415: the loop test and the flag test of
\* one iteration.  It returns to the retry loop of api_get/api_post or to
\* main's while.
SleepReturn ==
    IF pc = "api_sleep"
    THEN IF call.fn = "get" THEN "api_get" ELSE "api_post"
    ELSE IF pc = "llm_sleep" THEN "wait_for_llm"
    ELSE "main_loop"

\* The sleep that goes on looking only at its counter.
SleepOverIgnoringFlag == sleepLeft = 0

\* line 413 and 414: the range is exhausted, or the flag is set.
SleepOver == sleepLeft = 0 \/ _shutdown

_interruptible_sleep ==
    /\ pc \in {"api_sleep", "main_sleep", "llm_sleep"}
    /\ IF SleepOver
       THEN pc' = SleepReturn /\ sleepLeft' = 0
       ELSE /\ pc' = IF pc = "api_sleep" THEN "api_sleeping"
                     ELSE IF pc = "llm_sleep" THEN "llm_sleeping"
                     ELSE "main_sleeping"
            /\ UNCHANGED sleepLeft
    /\ UNCHANGED <<_shutdown, endVars, mainVars, now, discVars, apiVars,
                   paVars, draft, discHist, paHist, postHist, sigAt, waitsAfterSig>>
    /\ UNCHANGED <<offLoopVars, engagedAtStart>>

\* line 416: time.sleep(1).  A signal that arrives during the call does not
\* shorten it.
time_sleep ==
    /\ pc \in {"api_sleeping", "main_sleeping", "llm_sleeping"}
    /\ now' = now + 1
    /\ sleepLeft' = sleepLeft - 1
    /\ waitsAfterSig' = IF _shutdown THEN waitsAfterSig + 1 ELSE waitsAfterSig
    /\ pc' = IF pc = "api_sleeping" THEN "api_sleep"
             ELSE IF pc = "llm_sleeping" THEN "llm_sleep"
             ELSE "main_sleep"
    /\ UNCHANGED <<_shutdown, endVars, mainVars, discVars, apiVars, paVars,
                   draft, discHist, paHist, postHist, sigAt>>
    /\ UNCHANGED <<offLoopVars, engagedAtStart>>

\* --------------------------------------------------------------- API client
\* int(resp.headers.get("Retry-After", 5))
RetryWait(hdr) == IF hdr = -1 THEN DefaultRetryAfter ELSE hdr

\* A status check that lets the boundary code through.
RaisesAbove500(status) == status > 500

\* lines 107 / 123: resp.raise_for_status() raises for 4xx and 5xx.
RaisesForStatus(status) == status >= 400

\* A loop that admits one attempt too many.
MoreAttemptsOffByOne(a) == a <= MaxAttempts

\* lines 100 / 116: for attempt in range(3) has a further iteration.
MoreAttempts(a) == a < MaxAttempts

\* One pass of "for attempt in range(3)" of api_get (lines 100-110) and of
\* api_post (lines 116-126), which differ only in the HTTP verb: the request
\* is sent and answered; 429 starts the wait and continues (a wait of 0
\* seconds is range(0): _interruptible_sleep returns at once, without a look
\* at the flag), any other 4xx/5xx raises out of raise_for_status, anything
\* else returns resp.json().  With the range exhausted the call returns None.
ApiLoop ==
    IF MoreAttempts(attempt)
    THEN \E status \in Statuses, hdr \in RetryAfterHeaders,
            body \in (IF call.fn = "get" THEN Bodies ELSE {NoBody}) :
            /\ (status = 429 /\ RetryWait(hdr) > 0)
                   => rateLimited < MaxRetryWaits
            /\ status # 429 => hdr = 0
            /\ status # 200 => body = NoBody
            /\ resps' = Append(resps, [status |-> status, body |-> body])
            /\ published' =
                   IF call.path = "posts" /\ status = 200
                   THEN Append(published, now) ELSE published
            /\ IF status = 429
               THEN /\ rateLimited' =
                           IF RetryWait(hdr) > 0 THEN rateLimited + 1
                           ELSE rateLimited
                    /\ attempt' = attempt + 1
                    /\ sleepLeft' = RetryWait(hdr)
                    /\ pc' = IF RetryWait(hdr) > 0 THEN "api_sleep" ELSE pc
                    /\ UNCHANGED ret
               ELSE /\ ret' = IF RaisesForStatus(status)
                              THEN [kind |-> "raise", body |-> NoBody]
                              ELSE [kind |-> "data", body |-> body]
                    /\ pc' = call.ret_to
                    /\ UNCHANGED <<rateLimited, attempt, sleepLeft>>
    ELSE /\ ret' = [kind |-> "null", body |-> NoBody]
         /\ pc' = call.ret_to
         /\ UNCHANGED <<resps, published, rateLimited, attempt, sleepLeft>>

api_get ==
    /\ pc = "api_get"
    /\ ApiLoop
    /\ UNCHANGED <<_shutdown, endVars, mainVars, now, discVars, call, paVars,
                   draft, discHist, paHist, sigAt, waitsAfterSig>>
    /\ UNCHANGED <<offLoopVars, engagedAtStart>>

api_post ==
    /\ pc = "api_post"
    /\ ApiLoop
    /\ UNCHANGED <<_shutdown, endVars, mainVars, now, discVars, call, paVars,
                   draft, discHist, paHist, sigAt, waitsAfterSig>>
    /\ UNCHANGED <<offLoopVars, engagedAtStart>>

\* ---------------------------------------------------------------- discovery
\* line 240 / 257: if pid and pid not in engaged_ids and pid not in seen
\* The filter without the look at engaged_ids.
EligibleNoEngaged(p, sn) == Truthy(p) /\ p \notin sn

\* The filter without the transient set of the call.
EligibleNoSeen(p, sn) == Truthy(p) /\ p \notin engaged_ids

Eligible(p, sn) == Truthy(p) /\ p \notin engaged_ids /\ p \notin sn

\* lines 238-242 / 255-259: for p in data["posts"], as <<posts, seen>>.
RECURSIVE Collect(_, _, _)
Collect(ps, sn, page) ==
    IF page = << >> THEN <<ps, sn>>
    ELSE IF Eligible(Head(page), sn)
         THEN Collect(Append(ps, Head(page)), sn \cup {Head(page)}, Tail(page))
         ELSE Collect(ps, sn, Tail(page))

\* The observer's record: ids in the order they were first received.
RECURSIVE NoteReceived(_, _)
NoteReceived(fs, page) ==
    IF page = << >> THEN fs
    ELSE NoteReceived(
             IF \E k \in 1..Len(fs) : fs[k] = Head(page) THEN fs
             ELSE Append(fs, Head(page)),
             Tail(page))

\* lines 237 / 254: if data and "posts" in data, then the inner loop.
Absorb ==
    /\ IF ret.kind = "data" /\ ret.body.has_posts
       THEN /\ posts' = Collect(posts, seen, ret.body.posts)[1]
            /\ seen' = Collect(posts, seen, ret.body.posts)[2]
       ELSE UNCHANGED <<posts, seen>>
    /\ firstSeen' =
           IF ret.kind = "data" THEN NoteReceived(firstSeen, ret.body.posts)
           ELSE firstSeen

\* lines 233-236: the head of "for topic in cfg.get('topics', [])".
discover_search ==
    /\ pc = "discover_search"
    /\ IF ti > Len(cfg.topics)
       THEN /\ pc' = "discover_sort"
            /\ si' = 1
            /\ UNCHANGED <<seen, ti, ci, call, attempt, ret, resps, queries>>
       ELSE IF _shutdown
            THEN /\ pc' = "main_act"
                 /\ EndDiscover
                 /\ UNCHANGED <<call, attempt, ret, resps, queries>>
            ELSE /\ StartCall("get", "search", 0, "discover_search_ret")
                 /\ queries' = Append(queries, <<"search", ti, 0>>)
                 /\ UNCHANGED <<seen, ti, si, ci>>
    /\ UNCHANGED <<_shutdown, endVars, mainVars, now, posts, rateLimited,
                   sleepLeft, paVars, draft, firstSeen, paHist, postHist,
                   sigAt, waitsAfterSig>>
    /\ UNCHANGED <<offLoopVars, engagedAtStart>>

\* lines 236-242: api_get has returned or raised; discover_posts has no
\* handler and neither has main.
discover_search_ret ==
    /\ pc = "discover_search_ret"
    /\ IF ret.kind = "raise"
       THEN /\ Crash("HTTPError", "discover_posts")
            /\ UNCHANGED <<posts, seen, ti, firstSeen>>
       ELSE /\ Absorb
            /\ ti' = ti + 1
            /\ pc' = "discover_search"
            /\ UNCHANGED endVars
    /\ EndCall
    /\ UNCHANGED <<_shutdown, mainVars, now, si, ci, rateLimited, sleepLeft,
                   paVars, draft, queries, paHist, postHist, sigAt, waitsAfterSig>>
    /\ UNCHANGED <<offLoopVars, engagedAtStart>>

\* lines 245-247: the head of "for sort in ('hot', 'new')"; past the last
\* sort mode discover_posts returns (line 261).
discover_sort ==
    /\ pc = "discover_sort"
    /\ IF si > Len(Sorts) \/ _shutdown
       THEN pc' = "main_act" /\ EndDiscover
       ELSE pc' = "discover_feed" /\ ci' = 1 /\ UNCHANGED <<seen, ti, si>>
    /\ UNCHANGED <<_shutdown, endVars, mainVars, now, posts, apiVars,
                   sleepLeft, paVars, draft, discHist, paHist, postHist,
                   sigAt, waitsAfterSig>>
    /\ UNCHANGED <<offLoopVars, engagedAtStart>>

\* lines 248-253: the head of "for submolt in cfg.get('submolts', ...)".
discover_feed ==
    /\ pc = "discover_feed"
    /\ IF ci > Len(cfg.submolts)
       THEN /\ pc' = "discover_sort"
            /\ si' = si + 1
            /\ UNCHANGED <<call, attempt, ret, resps, queries>>
       ELSE /\ StartCall("get", "feed", 0, "discover_feed_ret")
            /\ queries' = Append(queries, <<"feed", si, ci>>)
            /\ UNCHANGED si
    /\ UNCHANGED <<_shutdown, endVars, mainVars, now, posts, seen, ti, ci,
                   rateLimited, sleepLeft, paVars, draft, firstSeen, paHist,
                   postHist, sigAt, waitsAfterSig>>
    /\ UNCHANGED <<offLoopVars, engagedAtStart>>

\* lines 249-259.
discover_feed_ret ==
    /\ pc = "discover_feed_ret"
    /\ IF ret.kind = "raise"
       THEN /\ Crash("HTTPError", "discover_posts")
            /\ UNCHANGED <<posts, seen, ci, firstSeen>>
       ELSE /\ Absorb
            /\ ci' = ci + 1
            /\ pc' = "discover_feed"
            /\ UNCHANGED endVars
    /\ EndCall
    /\ UNCHANGED <<_shutdown, mainVars, now, ti, si, rateLimited, sleepLeft,
                   paVars, draft, queries, paHist, postHist, sigAt, waitsAfterSig>>
    /\ UNCHANGED <<offLoopVars, engagedAtStart>>

\* --------------------------------------------------------------------- main
\* lines 453-458: the while test; a true flag ends the loop and main returns
\* (exit status 0); otherwise a cycle starts and discover_posts is entered.
main_loop ==
    /\ pc = "main_loop"
    /\ IF _shutdown
       THEN /\ pc' = "done"
            /\ exit_code' = 0
            /\ UNCHANGED <<cycle, discVars, discHist, engagedAtStart>>
       ELSE /\ cycle < MaxCycles
            /\ engagedAtStart' = engaged_ids
            /\ cycle' = cycle + 1
            /\ posts' = << >>
            /\ seen' = {}
            /\ ti' = 1
            /\ UNCHANGED <<si, ci>>
            /\ queries' = << >>
            /\ firstSeen' = << >>
            /\ pc' = "discover_search"
            /\ UNCHANGED exit_code
    /\ UNCHANGED <<_shutdown, uncaught, engaged_ids, last_post_time, now,
                   apiVars, sleepLeft, paVars, draft, paHist, postHist,
                   sigAt, waitsAfterSig>>
    /\ UNCHANGED offLoopVars


\* line 471-473: interval = cfg.get(...); _interruptible_sleep(interval)
StartCycleSleep ==
    /\ pc' = "main_sleep"
    /\ sleepLeft' = cfg.cycle_interval_seconds

\* lines 459-464: if posts and not _shutdown: pick_and_act(...)
main_act ==
    /\ pc = "main_act"
    /\ pc' = IF posts # << >> /\ ~_shutdown THEN "pick_and_act"
             ELSE "main_post"
    /\ queries' = << >>
    /\ firstSeen' = << >>
    /\ UNCHANGED <<_shutdown, endVars, mainVars, now, discVars, apiVars,
                   sleepLeft, paVars, draft, paHist, postHist, sigAt, waitsAfterSig>>
    /\ UNCHANGED <<offLoopVars, engagedAtStart>>

\* lines 466-473: if not _shutdown: maybe_create_post(...); otherwise the
\* cycle goes straight to its sleep.  The list of candidates and the
\* observer's notes on the batch are not used again.
main_post ==
    /\ pc = "main_post"
    /\ IF ~_shutdown
       THEN pc' = "maybe_create_post" /\ UNCHANGED sleepLeft
       ELSE StartCycleSleep
    /\ referenced' = {}
    /\ touched' = {}
    /\ pa_exit' = "none"
    /\ requested' = {}
    /\ repeated' = {}
    /\ action' = NoAction
    /\ ai' = 0
    /\ actions_taken' = 0
    /\ posts' = << >>
    /\ engagedAtStart' = {}
    /\ UNCHANGED <<_shutdown, endVars, mainVars, now, seen, ti, si, ci,
                   apiVars, draft, discHist, postHist, sigAt,
                   waitsAfterSig>>
    /\ UNCHANGED offLoopVars

\* ------------------------------------------------------------ pick_and_act
\* The item an in-range entry refers to: posts[idx - 1]["id"].
Pid == posts[action.index]

\* The observer notes an api_post call for a comment or an upvote.
LogSend(kind, p) ==
    /\ requested' = requested \cup {<<kind, p>>}
    /\ repeated' =
           IF <<kind, p>> \in requested THEN repeated \cup {<<kind, p>>}
           ELSE repeated

\* return from pick_and_act to main (line 463-464).
PaReturn(how) ==
    /\ pa_exit' = how
    /\ pc' = "main_post"

\* lines 268-305: the empty-list return, the language-model call and the
\* tests on what _parse_llm_json returned.  llm_chat raising is caught
\* (line 298); the tests of line 303 and the for of line 308 are outside any
\* try.
pick_and_act ==
    /\ pc = "pick_and_act"
    /\ IF posts = << >>
       THEN /\ PaReturn("no_posts")
            /\ UNCHANGED <<endVars, ai, actions_taken>>
       ELSE \E llm_ok \in BOOLEAN, parsed \in ParsedKinds :
                  IF ~llm_ok
                  THEN /\ parsed = "none"
                       /\ PaReturn("llm_error")
                       /\ UNCHANGED <<endVars, ai, actions_taken>>
                  ELSE CASE parsed \in {"none", "falsy", "no_actions"} ->
                                /\ PaReturn("unparseable")
                                /\ UNCHANGED <<endVars, ai, actions_taken>>
                         [] parsed \in {"scalar", "str_actions",
                                        "actions_num"} ->
                                /\ Crash("TypeError", "pick_and_act")
                                /\ UNCHANGED <<pa_exit, ai, actions_taken>>
                         [] parsed = "actions_list" ->
                                /\ actions_taken' = 0
                                /\ ai' = 0
                                /\ pc' = "pa_loop"
                                /\ UNCHANGED <<endVars, pa_exit>>
    /\ UNCHANGED <<_shutdown, mainVars, now, discVars, apiVars, sleepLeft,
                   action, draft, discHist, requested, repeated, referenced,
                   touched, postHist, sigAt, waitsAfterSig>>
    /\ UNCHANGED <<offLoopVars, engagedAtStart>>

\* line 312: not isinstance(idx, int) or idx < 1 or idx > len(posts)
BadIndex(e) == ~e.index_is_int \/ e.index < 1 \/ e.index > Len(posts)

\* The vote left to the coin whatever the action.
ShouldVoteByCoin(act, coin) == coin

\* line 332: should_vote = act == "comment" or random.random() < p
ShouldVote(act, coin) == act = "comment" \/ coin

\* The loop body without its last statement.
EngageNothing(p) == UNCHANGED engaged_ids

\* line 342: engaged_ids.add(pid)
Engage(p) == engaged_ids' = engaged_ids \cup {p}

\* lines 308-342, one entry of "for action in parsed['actions']" up to its
\* first api_post call: the list is exhausted, or its next entry is met.
\* The entries of the reply are revealed one at a time; the loop variable is
\* dead once the body is left.
pa_loop ==
    /\ pc = "pa_loop"
    /\ \/ /\ PaReturn("end")
          /\ UNCHANGED <<endVars, engaged_ids, call, attempt, ret, resps,
                         action, ai, requested, repeated, referenced,
                         touched>>
       \/ /\ ai < MaxActions
          /\ ai' = ai + 1
          /\ \E e \in Entries, coin \in BOOLEAN :
               IF _shutdown
               THEN /\ PaReturn("break")
                    /\ UNCHANGED <<endVars, engaged_ids, call, attempt, ret,
                                   resps, action, requested, repeated,
                                   referenced, touched>>
               ELSE IF ~e.is_dict
               THEN /\ Crash("AttributeError", "pick_and_act")
                    /\ UNCHANGED <<engaged_ids, call, attempt, ret, resps,
                                   action, paHist>>
               ELSE IF BadIndex(e)
               THEN /\ pc' = "pa_loop"
                    /\ UNCHANGED <<endVars, engaged_ids, call, attempt, ret,
                                   resps, action, paHist>>
               ELSE IF e.action = "comment" /\ e.comment = "nonstr"
               THEN /\ Crash("AttributeError", "pick_and_act")
                    /\ UNCHANGED <<engaged_ids, call, attempt, ret, resps,
                                   action, paHist>>
               ELSE IF e.action = "comment" /\ e.comment = "blank"
               THEN /\ pc' = "pa_loop"
                    /\ referenced' = referenced \cup {posts[e.index]}
                    /\ UNCHANGED <<endVars, engaged_ids, call, attempt, ret,
                                   resps, action, requested, repeated,
                                   touched, pa_exit>>
               ELSE /\ referenced' = referenced \cup {posts[e.index]}
                    /\ touched' = touched \cup {posts[e.index]}
                    /\ UNCHANGED <<endVars, pa_exit>>
                    /\ IF e.action = "comment"
                       THEN /\ StartCall("post", "comments", posts[e.index],
                                         "pa_commented")
                            /\ LogSend("comment", posts[e.index])
                            /\ action' = e
                            /\ UNCHANGED engaged_ids
                       ELSE IF e.action = "upvote"
                               /\ ShouldVote(e.action, coin)
                       THEN /\ StartCall("post", "upvote", posts[e.index],
                                         "pa_upvoted")
                            /\ LogSend("upvote", posts[e.index])
                            /\ action' = e
                            /\ UNCHANGED engaged_ids
                       ELSE /\ Engage(posts[e.index])
                            /\ pc' = "pa_loop"
                            /\ UNCHANGED <<call, attempt, ret, resps, action,
                                           requested, repeated>>
    /\ UNCHANGED <<_shutdown, cycle, last_post_time, now, discVars,
                   rateLimited, sleepLeft, actions_taken, draft, discHist,
                   postHist, sigAt, waitsAfterSig>>
    /\ UNCHANGED <<offLoopVars, engagedAtStart>>

\* lines 324-342 after the comment call: a raise is caught and logged,
\* otherwise actions_taken += 1; then the upvote decision of lines 330-337.
pa_commented ==
    /\ pc = "pa_commented"
    /\ actions_taken' =
           IF ret.kind = "raise" THEN actions_taken ELSE actions_taken + 1
    /\ \E coin \in BOOLEAN :
          IF ShouldVote(action.action, coin)
          THEN /\ StartCall("post", "upvote", Pid, "pa_upvoted")
               /\ LogSend("upvote", Pid)
               /\ UNCHANGED <<engaged_ids, action>>
          ELSE /\ Engage(Pid)
               /\ pc' = "pa_loop"
               /\ EndCall
               /\ action' = NoAction
               /\ UNCHANGED <<requested, repeated>>
    /\ UNCHANGED <<_shutdown, endVars, cycle, last_post_time, now, discVars,
                   rateLimited, sleepLeft, ai, draft, discHist, referenced,
                   touched, pa_exit, postHist, sigAt,
                   waitsAfterSig>>
    /\ UNCHANGED <<offLoopVars, engagedAtStart>>

\* lines 337-342 after the upvote call: a raise is caught and logged, then
\* engaged_ids.add(pid).
pa_upvoted ==
    /\ pc = "pa_upvoted"
    /\ Engage(Pid)
    /\ pc' = "pa_loop"
    /\ EndCall
    /\ action' = NoAction
    /\ UNCHANGED <<_shutdown, endVars, cycle, last_post_time, now, discVars,
                   rateLimited, sleepLeft, ai, actions_taken, draft,
                   discHist, paHist, postHist, sigAt,
                   waitsAfterSig>>
    /\ UNCHANGED <<offLoopVars, engagedAtStart>>

\* -------------------------------------------------------- maybe_create_post
\* line 352: time.time() - last_post_time < 1800
InCooldown(t, last) == t - last < Cooldown

\* lines 352-398: the cooldown, the random gate, max_posts_per_cycle, the
\* language-model call and the tests on the parsed reply.  Every return
\* hands last_post_time back to main, which goes on to its sleep.  The test
\* of line 385 is outside any try.
maybe_create_post ==
    /\ pc = "maybe_create_post"
    /\ \E gate \in BOOLEAN, llm_ok \in BOOLEAN, parsed \in DraftKinds :
          IF InCooldown(now, last_post_time)
          THEN /\ gate /\ llm_ok /\ parsed = "none"
               /\ StartCycleSleep
               /\ UNCHANGED <<endVars, call, attempt, ret, resps, draft>>
          ELSE IF ~gate \/ cfg.max_posts_per_cycle < 1
          THEN /\ llm_ok /\ parsed = "none"
               /\ StartCycleSleep
               /\ UNCHANGED <<endVars, call, attempt, ret, resps, draft>>
          ELSE IF ~llm_ok
          THEN /\ parsed = "none"
               /\ StartCycleSleep
               /\ UNCHANGED <<endVars, call, attempt, ret, resps, draft>>
          ELSE CASE parsed \in {"none", "falsy", "no_title"} ->
                        /\ StartCycleSleep
                        /\ UNCHANGED <<endVars, call, attempt, ret, resps,
                                       draft>>
                 [] parsed = "scalar" ->
                        /\ Crash("TypeError", "maybe_create_post")
                        /\ UNCHANGED <<call, attempt, ret, resps, draft,
                                       sleepLeft>>
                 [] parsed \in {"draft", "draft_numtitle"} ->
                        /\ draft' = parsed
                        /\ StartCall("post", "posts", 0, "mcp_ret")
                        /\ UNCHANGED <<endVars, sleepLeft>>
    /\ UNCHANGED <<_shutdown, mainVars, now, discVars, rateLimited, paVars,
                   discHist, paHist, postHist, sigAt, waitsAfterSig>>
    /\ UNCHANGED <<offLoopVars, engagedAtStart>>

\* lines 389-403 after api_post: a raise is caught (line 401); otherwise the
\* print of line 399 slices parsed['title'], which raises inside the same
\* try when the title is a number; otherwise time.time() is returned.
mcp_ret ==
    /\ pc = "mcp_ret"
    /\ IF ret.kind = "raise" \/ draft = "draft_numtitle"
       THEN UNCHANGED last_post_time
       ELSE last_post_time' = now
    /\ StartCycleSleep
    /\ EndCall
    /\ draft' = "none"
    /\ UNCHANGED <<_shutdown, endVars, cycle, engaged_ids, now, discVars,
                   rateLimited, paVars, discHist, paHist, published, sigAt,
                   waitsAfterSig>>
    /\ UNCHANGED <<offLoopVars, engagedAtStart>>

\* ------------------------------------------------------------ specification
Next ==
    \/ _handle_signal
    \/ main_loop
    \/ discover_search
    \/ discover_search_ret
    \/ discover_sort
    \/ discover_feed
    \/ discover_feed_ret
    \/ api_get
    \/ api_post
    \/ _interruptible_sleep
    \/ time_sleep
    \/ main_act
    \/ pick_and_act
    \/ pa_loop
    \/ pa_commented
    \/ pa_upvoted
    \/ main_post
    \/ maybe_create_post
    \/ mcp_ret

Spec == Init /\ [][Next]_vars

\* ------------------------------------------------------------ intent parser
\* json.loads accepts t: the literal null, or an object, here {} or an
\* object around one JSON value; anything else is a JSONDecodeError.
RECURSIVE IsJson(_)
IsJson(t) ==
    \/ t = <<"null">>
    \/ /\ Len(t) >= 2
       /\ t[1] = "{"
       /\ t[Len(t)] = "}"
       /\ Len(t) = 2 \/ IsJson(SubSeq(t, 2, Len(t) - 1))

\* Python's None.
None == [kind |-> "None", val |-> << >>]

\* What json.loads returns for a text it accepts: None for null, the object
\* otherwise.
Loaded(t) == IF t = <<"null">> THEN None ELSE [kind |-> "value", val |-> t]

Positions(t, tok) == {k \in 1..Len(t) : t[k] = tok}

First(S) == CHOOSE k \in S : \A m \in S : k <= m

Last(S) == CHOOSE k \in S : \A m \in S : m <= k

\* line 182: re.search of ```...``` with a lazy interior finds a match when
\* the text has two fence markers.
FenceMatch(t) == Cardinality(Positions(t, "fence")) >= 2

\* m.group(1) of line 185: what lies between the first fence marker and the
\* next one.
FenceInterior(t) ==
    LET a == First(Positions(t, "fence"))
        b == First(Positions(t, "fence") \ {a})
    IN  SubSeq(t, a + 1, b - 1)

\* line 189: re.search of \{.*\} finds a match when a "}" follows the first
\* "{".
BraceMatch(t) ==
    /\ Positions(t, "{") # {}
    /\ \E k \in Positions(t, "}") : k > First(Positions(t, "{"))

\* A lazy pattern: up to the first "}" after the first "{".
BraceSpanLazy(t) ==
    LET a == First(Positions(t, "{"))
    IN  SubSeq(t, a, First({k \in Positions(t, "}") : k > a}))

\* m.group(0) of line 192: the pattern is greedy, from the first "{" to the
\* last "}".
BraceSpan(t) ==
    SubSeq(t, First(Positions(t, "{")), Last(Positions(t, "}")))

\* lines 177-195.
ParseLlmJson(t) ==
    IF IsJson(t) THEN Loaded(t)
    ELSE IF FenceMatch(t) /\ IsJson(FenceInterior(t))
    THEN Loaded(FenceInterior(t))
    ELSE IF BraceMatch(t) /\ IsJson(BraceSpan(t))
    THEN Loaded(BraceSpan(t))
    ELSE None

\* A call of _parse_llm_json on any text.
InitParse ==
    /\ InitLoopVars
    /\ posts = << >>
    /\ pc = "_parse_llm_json"
    /\ probe_i = 0
    /\ text \in Texts
    /\ parse_ret = NotParsed

_parse_llm_json ==
    /\ pc = "_parse_llm_json"
    /\ parse_ret' = ParseLlmJson(text)
    /\ pc' = "parsed"
    /\ UNCHANGED <<_shutdown, endVars, mainVars, now, discVars, apiVars,
                   sleepLeft, paVars, draft, discHist, paHist, postHist,
                   sigAt, waitsAfterSig, engagedAtStart, probe_i, text>>

NextParse == _parse_llm_json

SpecParse == InitParse /\ [][NextParse]_vars

\* ------------------------------------------------------------------ startup
\* What a reachability probe, requests.get(base, timeout=3), does: it
\* returns, or raises ConnectionError (refused, unreachable, connect
\* timeout), or raises another exception (a read timeout).
ProbeOutcomes == {"ok", "ConnectionError", "ReadTimeout"}

\* lines 138-149: the head of "for i in range(retries)" with the flag test,
\* then the probe; past the last iteration sys.exit(1).  Only
\* ConnectionError is caught.
wait_for_llm ==
    /\ pc = "wait_for_llm"
    /\ IF probe_i >= Retries
       THEN /\ pc' = "done"
            /\ exit_code' = 1
            /\ UNCHANGED <<uncaught, probe_i, sleepLeft>>
       ELSE IF _shutdown
       THEN /\ pc' = "done"
            /\ exit_code' = 0
            /\ UNCHANGED <<uncaught, probe_i, sleepLeft>>
       ELSE \E outcome \in ProbeOutcomes :
               CASE outcome = "ok" ->
                        /\ pc' = "llm_ready"
                        /\ UNCHANGED <<endVars, probe_i, sleepLeft>>
                 [] outcome = "ConnectionError" ->
                        /\ probe_i' = probe_i + 1
                        /\ sleepLeft' = ProbeDelay
                        /\ pc' = "llm_sleep"
                        /\ UNCHANGED endVars
                 [] outcome = "ReadTimeout" ->
                        /\ Crash("ReadTimeout", "wait_for_llm")
                        /\ UNCHANGED <<probe_i, sleepLeft>>
    /\ UNCHANGED <<_shutdown, mainVars, now, discVars, apiVars, paVars,
                   draft, discHist, paHist, postHist, sigAt, waitsAfterSig,
                   engagedAtStart, text, parse_ret>>

\* main has called wait_for_llm (line 433).
InitStartup ==
    /\ InitLoopVars
    /\ posts = << >>
    /\ pc = "wait_for_llm"
    /\ probe_i = 0
    /\ text = << >>
    /\ parse_ret = NotParsed

NextStartup ==
    \/ _handle_signal
    \/ wait_for_llm
    \/ _interruptible_sleep
    \/ time_sleep

SpecStartup == InitStartup /\ [][NextStartup]_vars

\* -------------------------------------------------- batches of any length
\* lines 276-280: the candidates rendered into the prompt.
Presented == SubSeq(posts, 1, IF Len(posts) < PromptCap THEN Len(posts) ELSE PromptCap)

\* Lengths of the candidate list around the cap of the prompt.
BatchSizes == {PromptCap - 1, PromptCap, PromptCap + 1}

\* main calls pick_and_act (line 463) with the list discover_posts returned:
\* items 1..n, none of them engaged.
InitBatch ==
    /\ InitLoopVars
    /\ posts \in {[k \in 1..n |-> k] : n \in BatchSizes}
    /\ pc = "pick_and_act"
    /\ probe_i = 0
    /\ text = << >>
    /\ parse_ret = NotParsed

NextBatch ==
    \/ _handle_signal
    \/ pick_and_act
    \/ pa_loop
    \/ pa_commented
    \/ pa_upvoted
    \/ api_post
    \/ _interruptible_sleep
    \/ time_sleep

SpecBatch == InitBatch /\ [][NextBatch]_vars

\* ------------------------------------------------------------------ claims
\* The call in progress has handed its result to the caller.
Returned == ret.kind # "none"

AllRateLimited(n) == \A k \in 1..n : resps[k].status = 429

\* C1: an api_get or api_post call sends at most 3 requests; a success
\* response at attempt k ends the call with that response's data after
\* exactly k requests, all earlier responses having been 429; three 429
\* responses end it with null after exactly 3 requests.
C1_AtMostThreeRequests ==
    /\ Len(resps) <= 3
    /\ \A k \in 1..Len(resps) :
          resps[k].status = 200 =>
              /\ k = Len(resps)
              /\ AllRateLimited(k - 1)
              /\ ret = [kind |-> "data", body |-> resps[k].body]
    /\ ret.kind = "data" =>
          /\ Len(resps) >= 1
          /\ resps[Len(resps)].status = 200
    /\ ret.kind = "null" <=>
          (Returned /\ Len(resps) = 3 /\ AllRateLimited(3))

\* A call gave up after three 429 responses, and returned null.
C1_Witness ==
    /\ ret.kind = "null"
    /\ Len(resps) = 3
    /\ AllRateLimited(3)
    /\ pc = call.ret_to

\* C2: no non-429 error response of the API, in whichever stage it is met,
\* ends the process.
C2_ApiErrorNeverFatal == ~(pc = "done" /\ uncaught.exc = "HTTPError")

\* C3: no comment request and no upvote request is sent a second time for
\* the same item.
C3_OneRequestPerItem == repeated = {}

\* C4 as stated: after a batch processed to its end every item referenced by
\* an in-range entry is in engaged_ids, skipped requests included.
C4_ReferencedAreEngaged == pa_exit = "end" => referenced \subseteq engaged_ids

\* C4: after a batch processed to its end every item referenced by an
\* in-range entry, other than a comment entry whose text is empty after
\* trimming, is in engaged_ids, whether its requests succeeded, failed or
\* (the upvote) were not made.
C4_TouchedAreEngaged == pa_exit = "end" => touched \subseteq engaged_ids

\* A batch ended with both candidates engaged: one of them by a request
\* (which may have failed), the other without any request.
C4_Witness ==
    /\ pa_exit = "end"
    /\ touched = {1, 2}
    /\ \E p \in touched : \A k \in {"comment", "upvote"} : <<k, p>> \notin requested
    /\ \E p \in touched : <<"comment", p>> \in requested /\ actions_taken = 0

\* C5: any two publications accepted by the server are at least 1800
\* seconds apart.
C5_PublicationsApart ==
    \A i, j \in 1..Len(published) :
        i < j => published[j] - published[i] >= 1800

\* C6: a shutdown requested during the inter-cycle sleep lets at most the
\* one-second wait in progress finish, after which the loop is left with
\* exit code 0; no cycle is started and no request is made.
C6_SleepInterrupted ==
    sigAt = "sleep" =>
        /\ pc \in {"main_sleep", "main_sleeping", "main_loop", "done"}
        /\ call = NoCall
        /\ waitsAfterSig <= 1
        /\ pc = "done" => exit_code = 0

\* The signal came during a one-second wait of the sleep, with more of the
\* interval left; the wait finished and the process has ended.
C6_Witness ==
    /\ sigAt = "sleep"
    /\ pc = "done"
    /\ waitsAfterSig = 1
    /\ cycle = 1
    /\ rateLimited = 0
    /\ now < Cooldown + cfg.cycle_interval_seconds

\* C7: a process whose shutdown was requested ends with exit code 0.
C7_GracefulExit == (pc = "done" /\ _shutdown) => exit_code = 0

\* The order in which discover_posts queries: the topics, then for each sort
\* mode the submolts.
ExpectedQueries ==
    [k \in 1..Len(cfg.topics) |-> <<"search", k, 0>>]
        \o [k \in 1..(Len(Sorts) * Len(cfg.submolts)) |->
               <<"feed", ((k - 1) \div Len(cfg.submolts)) + 1,
                 ((k - 1) % Len(cfg.submolts)) + 1>>]

IsPrefix(s, t) == Len(s) <= Len(t) /\ \A k \in 1..Len(s) : s[k] = t[k]

NotEngaged(p) == p \notin engaged_ids

WantedItem(p) == Truthy(p) /\ p \notin engaged_ids

\* C8 as stated: discover_posts returns the received items whose identifier
\* is not in engaged_ids, each once, in order of first receipt.
C8_ReturnsAllNotEngaged ==
    pc = "main_act" => posts = SelectSeq(firstSeen, NotEngaged)

\* C8: discover_posts queries the searches in topic order and then the
\* feeds in sort-mode and channel order; it returns the received items with
\* a non-empty, non-zero identifier that is not in engaged_ids, each once,
\* in order of first receipt (so the result is a function of engaged_ids and
\* the upstream data), and it leaves engaged_ids as it was.
C8_Discovery ==
    /\ [](/\ IsPrefix(queries, ExpectedQueries)
          /\ pc = "main_act" => posts = SelectSeq(firstSeen, WantedItem))
    /\ [][Stage = "discover" => engaged_ids' = engaged_ids]_vars

\* A full scan that received an engaged item, an item without identifier and
\* a fresh item twice, and returned the fresh one alone.
C8_Witness ==
    /\ pc = "main_act"
    /\ engaged_ids = {1}
    /\ firstSeen = <<2, 0, 1>>
    /\ posts = <<2>>

\* The request of the entry being executed is for the entry's item.
C9_CallIsForChosen ==
    call.path \in {"comments", "upvote"} =>
        /\ ~BadIndex(action)
        /\ call.pid = Pid
        /\ <<IF call.path = "comments" THEN "comment" ELSE "upvote", Pid>>
               \in requested
        /\ Pid \in touched

C9_Step ==
    /\ C9_CallIsForChosen
    \* a comment entry with text starts the comment request
    /\ (action'.action = "comment" /\ action.action # "comment") =>
           /\ action'.comment = "text"
           /\ pc' = "api_post"
           /\ call'.path = "comments"
           /\ call'.pid = posts[action'.index]
    \* the comment request over, the upvote request for the same item starts
    /\ (pc = "pa_commented" /\ pc' # pc) =>
           /\ call.path = "comments"
           /\ pc' = "api_post"
           /\ call'.path = "upvote"
           /\ call'.pid = call.pid
           /\ engaged_ids' = engaged_ids
    \* the upvote request over, the item is engaged
    /\ (pc = "pa_upvoted" /\ pc' # pc /\ action.action = "comment") =>
           /\ call.path = "upvote"
           /\ engaged_ids' = engaged_ids \cup {call.pid}
           /\ <<"comment", call.pid>> \in requested
    \* nothing but an item an entry chose is requested or engaged
    /\ \A r \in requested' \ requested : r[2] \in touched'
    /\ \A p \in engaged_ids' \ engaged_ids : p \in touched'

\* C9: a comment entry with text makes pick_and_act send the comment
\* request for the entry's item, then, however that request ended and
\* whatever the vote coin shows, the upvote request for the same item, and
\* then add the item to engaged_ids; requests are sent and engaged_ids is
\* extended only for items an entry of the reply chose.
C9_CommentThenUpvote == [][C9_Step]_vars

\* The comment on candidate 1 failed, the upvote followed, 1 is engaged and
\* candidate 2 is untouched.
C9_Witness ==
    /\ pc = "pa_loop"
    /\ Len(posts) = 2
    /\ requested = {<<"comment", posts[1]>>, <<"upvote", posts[1]>>}
    /\ actions_taken = 0
    /\ posts[1] \in engaged_ids
    /\ posts[2] \notin engaged_ids

\* C10: no exception leaves pick_and_act.
C10_NeverRaises == uncaught.in # "pick_and_act"

\* A response that is an error other than the rate limit.
IsApiError(status) == status >= 400 /\ status # 429

\* C11: a non-429 4xx/5xx response is the last request of its call, at
\* whichever attempt it arrives, and the call ends by raising: it returns
\* neither data nor null.
C11_ErrorEndsCall ==
    /\ \A k \in 1..Len(resps) :
          IsApiError(resps[k].status) =>
              /\ k = Len(resps)
              /\ AllRateLimited(k - 1)
              /\ ret.kind = "raise"
              /\ pc = call.ret_to
    /\ ret.kind = "raise" =>
          /\ Len(resps) >= 1
          /\ IsApiError(resps[Len(resps)].status)

\* The error came at the third attempt, after two 429 responses.
C11_Witness ==
    /\ ret.kind = "raise"
    /\ Len(resps) = 3
    /\ AllRateLimited(2)
    /\ resps[3].status = 500

\* The pair of fence markers that delimits the first fenced block of t.
FirstBlock(t) ==
    CHOOSE ab \in (1..Len(t)) \X (1..Len(t)) :
        /\ ab[1] < ab[2]
        /\ t[ab[1]] = "fence"
        /\ t[ab[2]] = "fence"
        /\ \A k \in 1..(ab[2] - 1) : k # ab[1] => t[k] # "fence"

HasBlock(t) ==
    \E a, b \in 1..Len(t) : a < b /\ t[a] = "fence" /\ t[b] = "fence"

\* The span of t from its first "{" to its last "}".
OuterBraces(t) ==
    CHOOSE ab \in (1..Len(t)) \X (1..Len(t)) :
        /\ t[ab[1]] = "{"
        /\ t[ab[2]] = "}"
        /\ \A k \in 1..Len(t) : t[k] = "{" => ab[1] <= k
        /\ \A k \in 1..Len(t) : t[k] = "}" => k <= ab[2]

HasOuterBraces(t) ==
    \E a, b \in 1..Len(t) :
        /\ a < b
        /\ t[a] = "{"
        /\ t[b] = "}"
        /\ \A k \in 1..Len(t) : t[k] = "{" => a <= k
        /\ \A k \in 1..Len(t) : t[k] = "}" => k <= b

\* What the stages that apply to t give to the JSON parser, in the order
\* whole text, interior of the first fenced block, first "{" to last "}".
StageInputs(t) ==
    <<t>>
        \o (IF HasBlock(t)
            THEN <<SubSeq(t, FirstBlock(t)[1] + 1, FirstBlock(t)[2] - 1)>>
            ELSE << >>)
        \o (IF HasOuterBraces(t)
            THEN <<SubSeq(t, OuterBraces(t)[1], OuterBraces(t)[2])>>
            ELSE << >>)

ParsingStages(t) ==
    {k \in 1..Len(StageInputs(t)) : IsJson(StageInputs(t)[k])}

\* The value of the first stage that parses, None when none does.
FirstParsed(t) ==
    IF ParsingStages(t) = {} THEN None
    ELSE Loaded(StageInputs(t)[First(ParsingStages(t))])

\* C12 as stated: the extractor returns the value of the first stage that
\* parses, and it returns null exactly when no stage parses.
C12_NullIffNothingParses ==
    pc = "parsed" =>
        /\ parse_ret = FirstParsed(text)
        /\ parse_ret = None <=> ParsingStages(text) = {}

\* C12: the extractor returns the value of the first of the three stages
\* that parses, in the order whole text, interior of the first fenced block,
\* first "{" to last "}"; it returns null exactly when no stage parses or
\* the first stage that parses yields the JSON value null.
C12_FirstParsingStage ==
    pc = "parsed" =>
        /\ parse_ret = FirstParsed(text)
        /\ parse_ret = None <=>
               \/ ParsingStages(text) = {}
               \/ StageInputs(text)[First(ParsingStages(text))] = <<"null">>

\* The whole text does not parse, its fenced block holds prose, and the
\* object after the block is returned.
C12_Witness ==
    /\ pc = "parsed"
    /\ text = <<"fence", "prose", "fence", "{", "}">>
    /\ parse_ret = [kind |-> "value", val |-> <<"{", "}">>]

\* C13: after a shutdown request that arrived during a query of
\* discover_posts, no further search or feed query is started.
C13_NoQueryAfterShutdown ==
    [][sigAt = "query" => Len(queries') <= Len(queries)]_vars

\* C14: a call of maybe_create_post that sends no POST /posts (cooldown,
\* gate, max_posts_per_cycle, language-model failure, reply without title
\* or body) returns to main with last_post_time as it was.
C14_NoPostNoChange ==
    [][(pc = "maybe_create_post" /\ pc' \notin {pc, "api_post"}) =>
           (pc' = "main_sleep" /\ last_post_time' = last_post_time)]_vars

\* C15: a shutdown requested during a wait of wait_for_llm makes the
\* process exit with code 0.
C15_ShutdownInWaitExitsZero ==
    (sigAt = "llm_wait" /\ pc = "done") => exit_code = 0

\* C16: every comment or upvote request is for one of the candidates
\* rendered into the prompt, the first 15 of the list.
C16_OnlyPresentedTargets ==
    \A r \in requested : \E k \in 1..Len(Presented) : Presented[k] = r[2]

\* C17: the comment requests of one cycle are at most
\* max_comments_per_cycle.
C17_CommentsWithinLimit ==
    Cardinality({r \in requested : r[1] = "comment"})
        <= cfg.max_comments_per_cycle

\* C18: an item is in engaged_ids only if a comment or upvote request for
\* it was sent; for the items the entries of the batch in progress refer to,
\* which discovery found not engaged, that request is one of the batch.
C18_EngagedOnlyIfRequested ==
    \A p \in touched \cap engaged_ids :
        p \in engagedAtStart
            \/ \E k \in {"comment", "upvote"} : <<k, p>> \in requested

\* C19: last_post_time is the initial 0 or the time of a POST /posts that
\* the server accepted.
C19_StampOnlyWhenAccepted ==
    \/ last_post_time = 0
    \/ \E k \in 1..Len(published) : published[k] = last_post_time

\* C20: no comment or upvote request of a cycle is for an item that was in
\* engaged_ids when the cycle started; engaged_ids never loses an item, so
\* the same holds for every later cycle.
C20_EngagedNeverTargeted ==
    /\ [](/\ \A r \in requested : r[2] \notin engagedAtStart
          /\ engagedAtStart \subseteq engaged_ids)
    /\ [][/\ engaged_ids \subseteq engaged_ids'
          /\ (pc = "main_loop" /\ pc' = "discover_search") =>
                 engagedAtStart' = engaged_ids]_vars

\* In the second cycle, with item 1 engaged by the first, a comment is being
\* sent for item 2.
C20_Witness ==
    /\ cycle = 2
    /\ engagedAtStart = {1}
    /\ posts = <<2>>
    /\ call.path = "comments"
    /\ call.pid = 2

====
